---- MODULE Spec2Model ----
(***************************************************************************)
(* Model of _stbt/pylint_plugin.py: the pylint checker StbtChecker with    *)
(* its two visitor entry points (visit_const, visit_callfunc) and the      *)
(* helper predicates they are built on.                                    *)
(*                                                                         *)
(* Source text (literal values, as_string() of expressions, file names)    *)
(* is modelled as TLA+ strings, and the regular expressions and path       *)
(* functions of the source are computed character by character.            *)
(*                                                                         *)
(* The astroid resolver (node.infer()) is an external collaborator: for    *)
(* every expression the model carries a resolver outcome                   *)
(*     [items : the values infer() produces, in order,                     *)
(*      raises: whether infer() raises after having produced them].        *)
(* The host interpreter is Python 2 (the source tests decorators against   *)
(* "__builtin__.property"); both astroid call shapes the source handles    *)
(* (astroid >= 1.4 with node.keywords, astroid < 1.4 with Keyword nodes    *)
(* inside node.args) are inputs.                                           *)
(***************************************************************************)
EXTENDS Integers, Sequences, FiniteSets, TLC

VARIABLES pc, node, msgs, raised, ret

vars == <<pc, node, msgs, raised, ret>>

(***************************************************************************)
(* Bounds of the model.                                                    *)
(***************************************************************************)
\* longest sequence of values a resolver produces for one expression
MaxCandidates == 2
\* largest number of positional arguments of a visited call
MaxPos == 2
\* longest chain of enclosing nodes walked by the scope predicates
MaxDepth == 3

(***************************************************************************)
(* Strings.                                                                *)
(***************************************************************************)
Ch(s, i) == SubSeq(s, i, i)

\* the characters matched by \w
WordChars ==
    {"a", "b", "c", "d", "e", "f", "g", "h", "i", "j", "k", "l", "m",
     "n", "o", "p", "q", "r", "s", "t", "u", "v", "w", "x", "y", "z",
     "A", "B", "C", "D", "E", "F", "G", "H", "I", "J", "K", "L", "M",
     "N", "O", "P", "Q", "R", "S", "T", "U", "V", "W", "X", "Y", "Z",
     "0", "1", "2", "3", "4", "5", "6", "7", "8", "9", "_"}

IsWordAt(s, i) == i >= 1 /\ i <= Len(s) /\ Ch(s, i) \in WordChars

\* \b just before position i (1 <= i <= Len(s) + 1)
WordBoundaryAt(s, i) == IsWordAt(s, i - 1) # IsWordAt(s, i)

\* the literal lit occupies positions i .. i + Len(lit) - 1 of s
LitAt(s, i, lit) ==
    /\ i >= 1
    /\ i + Len(lit) - 1 <= Len(s)
    /\ SubSeq(s, i, i + Len(lit) - 1) = lit

\* the positions where $ matches: the end of the string, and just before a
\* line break that ends the string
DollarPositions(s) ==
    {Len(s) + 1} \cup
    (IF Len(s) >= 1 /\ Ch(s, Len(s)) = "\n" THEN {Len(s)} ELSE {})

Contains(s, lit) == \E i \in 1..Len(s) : LitAt(s, i, lit)

\* the names whose return value signals success
UnusedReturnNames ==
    {"is_screen_black", "match", "match_text", "ocr", "wait_until"}

\* re.search(r"\b(is_screen_black|match|match_text|ocr|wait_until)$", s)
ReUnusedReturn(s) ==
    \E name \in UnusedReturnNames : \E e \in DollarPositions(s) :
        /\ LitAt(s, e - Len(name), name)
        /\ WordBoundaryAt(s, e - Len(name))

\* re.search(r"\bwait_until", s)
ReWaitUntil(s) ==
    \E i \in 1..Len(s) : WordBoundaryAt(s, i) /\ LitAt(s, i, "wait_until")

\* re.search(r'.+\.png$', s)
RePng(s) ==
    \E e \in DollarPositions(s) :
        /\ LitAt(s, e - 4, ".png")
        /\ e - 5 >= 1
        /\ Ch(s, e - 5) # "\n"

\* s.split(".")[-1]
LastDot(s) ==
    LET dots == {i \in 1..Len(s) : Ch(s, i) = "."}
    IN  IF dots = {} THEN 0 ELSE CHOOSE i \in dots : \A j \in dots : j <= i

SplitDotLast(s) == SubSeq(s, LastDot(s) + 1, Len(s))

\* os.path.dirname(p)
LastSlash(p) ==
    LET sl == {i \in 1..Len(p) : Ch(p, i) = "/"}
    IN  IF sl = {} THEN 0 ELSE CHOOSE i \in sl : \A j \in sl : j <= i

RECURSIVE RStripSlash(_)
RStripSlash(p) ==
    IF Len(p) >= 1 /\ Ch(p, Len(p)) = "/"
    THEN RStripSlash(SubSeq(p, 1, Len(p) - 1))
    ELSE p

Dirname(p) ==
    LET head == SubSeq(p, 1, LastSlash(p))
    IN  IF RStripSlash(head) = "" THEN head ELSE RStripSlash(head)

\* os.path.join(a, b)
PathJoin(a, b) ==
    IF Len(b) >= 1 /\ Ch(b, 1) = "/" THEN b
    ELSE IF a = "" \/ Ch(a, Len(a)) = "/" THEN a \o b
    ELSE a \o "/" \o b

(***************************************************************************)
(* Definitions: what an expression may be resolved to.                     *)
(***************************************************************************)
Def(kind, root, parent, name, argnames) ==
    [kind |-> kind, root |-> root, parent |-> parent, name |-> name,
     argnames |-> argnames]

\* astroid's YES: the resolver's "could not determine"
YES == Def("YES", "", "", "", <<>>)

\* stbt.match(image, frame=None, ...): defined in _stbt.core
D_match == Def("FunctionDef", "_stbt.core", "_stbt.core", "match",
               <<"image", "frame">>)
\* a library function without a frame parameter
D_wait_until == Def("FunctionDef", "stbt", "stbt", "wait_until",
                    <<"callable_", "timeout_secs">>)
\* a function of the test script that shares a library name
D_user == Def("FunctionDef", "tests", "tests", "match", <<"frame">>)
\* a class of the library
D_class == Def("ClassDef", "_stbt.core", "_stbt.core", "MatchResult", <<>>)
D_partial == Def("FunctionDef", "functools", "functools", "partial",
                 <<"func">>)
D_imwrite == Def("FunctionDef", "cv2", "cv2", "imwrite",
                 <<"filename", "img">>)
D_save_frame == Def("FunctionDef", "_stbt.core", "_stbt.core", "save_frame",
                    <<"image", "filename">>)
\* a literal and a lambda resolve to themselves
D_const == Def("Const", "tests", "", "", <<>>)
D_lambda == Def("Lambda", "tests", "tests", "<lambda>", <<>>)

\* inferred.callable()
Callable(d) == d.kind \in {"FunctionDef", "ClassDef", "Lambda", "YES"}

\* the sequences over S of length at most n
SeqUpTo(S, n) == UNION {[1..k -> S] : k \in 0..n}

\* what node.infer() does: the values it produces, then whether it raises
ResolverOutcomes(S) ==
    {[items |-> s, raises |-> b] : s \in SeqUpTo(S, MaxCandidates),
                                   b \in BOOLEAN}

Resolved(s) == [items |-> s, raises |-> FALSE]
InferenceError == [items |-> <<>>, raises |-> TRUE]

(***************************************************************************)
(* _infer: the inference adapter.                                          *)
(***************************************************************************)
RECURSIVE InferLoop(_, _)
InferLoop(items, acc) ==
    IF items = <<>> THEN acc
    ELSE IF Head(items) = YES THEN InferLoop(Tail(items), acc)
    ELSE InferLoop(Tail(items), Append(acc, Head(items)))

\* stops at the first failure and forgets what was produced before it
_infer_all_or_nothing(res) ==
    [yielded |-> IF res.raises THEN <<>> ELSE InferLoop(res.items, <<>>),
     raised |-> FALSE]

\* without the try/except
_infer_propagates(res) ==
    [yielded |-> InferLoop(res.items, <<>>), raised |-> res.raises]

\* a generator: every value the resolver produced that is not YES has been
\* handed to the consumer by the time the resolver raises; the exception is
\* swallowed
_infer(res) == [yielded |-> InferLoop(res.items, <<>>), raised |-> FALSE]

Range(s) == {s[i] : i \in 1..Len(s)}

(***************************************************************************)
(* Syntax nodes.                                                           *)
(*   an expression:  [as_string, res]  (res: its resolver outcome)         *)
(*   an enclosing node: [kind, decoratornames, ancestors, func]            *)
(*   an argument:    [kind, as_string, res, func, arg]                     *)
(***************************************************************************)
Expression(text, res) == [as_string |-> text, res |-> res]
NoFunc == Expression("", InferenceError)

\* an enclosing node that is neither a function, a class nor a call
Encl(kind) ==
    [kind |-> kind, decoratornames |-> {}, ancestors |-> {}, func |-> NoFunc]
FunctionDefNode(decorators) ==
    [kind |-> "FunctionDef", decoratornames |-> decorators, ancestors |-> {},
     func |-> NoFunc]
ClassDefNode(ancestors) ==
    [kind |-> "ClassDef", decoratornames |-> {}, ancestors |-> ancestors,
     func |-> NoFunc]
\* a call (the literal is one of its positional arguments), or a keyword
\* argument of a call: func is the callee of that call
CallNode(func) ==
    [kind |-> "Call", decoratornames |-> {}, ancestors |-> {}, func |-> func]
KeywordNode(func) ==
    [kind |-> "Keyword", decoratornames |-> {}, ancestors |-> {},
     func |-> func]

Argument(kind, text, res, func, arg) ==
    [kind |-> kind, as_string |-> text, res |-> res, func |-> func,
     arg |-> arg]
ConstArg(text) == Argument("Const", text, Resolved(<<D_const>>), NoFunc, "")
LambdaArg == Argument("Lambda", "lambda: True", Resolved(<<D_lambda>>),
                      NoFunc, "")
NameArg(text, res) == Argument("Name", text, res, NoFunc, "")
CallArg(func, res) ==
    Argument("Call", func.as_string \o "()", res, func, "")
KeywordArg(name) ==
    Argument("Keyword", name \o "=x", InferenceError, NoFunc, name)

(***************************************************************************)
(* The predicate library.                                                  *)
(***************************************************************************)
_is_function_named(func, name) ==
    \/ func.as_string = name
    \/ \E funcdef \in Range(_infer(func.res).yielded) :
          /\ funcdef.kind = "FunctionDef"
          /\ funcdef.parent \o "." \o funcdef.name = name

\* silent whenever nothing was inferred
_is_callable_lenient(n) ==
    \/ \E inferred \in Range(_infer(n.res).yielded) : Callable(inferred)
    \/ _infer(n.res).yielded = <<>>

_is_callable(n) ==
    LET inferred == _infer(n.res).yielded
        failed_to_infer == inferred = <<>>
    IN  IF \E i \in 1..Len(inferred) : Callable(inferred[i]) THEN TRUE
        ELSE IF failed_to_infer
        THEN n.kind = "Call" /\ _is_function_named(n.func, "functools.partial")
        ELSE FALSE

\* stops at the nearest enclosing class, whatever it is
RECURSIVE _in_frameobject_nearest(_)
_in_frameobject_nearest(chain) ==
    IF chain = <<>> THEN FALSE
    ELSE IF Head(chain).kind = "ClassDef"
    THEN "stbt.FrameObject" \in Head(chain).ancestors
    ELSE _in_frameobject_nearest(Tail(chain))

\* chain: the node, its parent, the parent's parent, ... up to the module
RECURSIVE _in_frameobject(_)
_in_frameobject(chain) ==
    IF chain = <<>> THEN FALSE
    ELSE IF /\ Head(chain).kind = "ClassDef"
            /\ "stbt.FrameObject" \in Head(chain).ancestors
    THEN TRUE
    ELSE _in_frameobject(Tail(chain))

\* stops at the nearest enclosing function, whatever it is
RECURSIVE _in_property_nearest(_)
_in_property_nearest(chain) ==
    IF chain = <<>> THEN FALSE
    ELSE IF Head(chain).kind = "FunctionDef"
    THEN "__builtin__.property" \in Head(chain).decoratornames
    ELSE _in_property_nearest(Tail(chain))

RECURSIVE _in_property(_)
_in_property(chain) ==
    IF chain = <<>> THEN FALSE
    ELSE IF /\ Head(chain).kind = "FunctionDef"
            /\ "__builtin__.property" \in Head(chain).decoratornames
    THEN TRUE
    ELSE _in_property(Tail(chain))

_is_calculated_value(n) ==
    \/ n.parent.kind = "BinOp"
    \/ /\ n.parent.kind = "Call"
       /\ SplitDotLast(n.parent.func.as_string) = "join"

_is_pattern_value(n) == Contains(n.value, "*")

_is_whitelisted_name(filename) == filename = "screenshot.png"

WhitelistedFunctions ==
    {"cv2.imwrite", "re.match", "re.search", "stbt.save_frame",
     "_stbt.core.save_frame"}

_in_whitelisted_functions(n) ==
    /\ n.parent.kind = "Call"
    /\ \E x \in WhitelistedFunctions : _is_function_named(n.parent.func, x)

\* the files on disk when the analysis runs
Files == {"tests/a.png", "tests/images/b.png", "/srv/c.png", "root.png"}

\* looks the name up in the working directory instead of beside the source
_file_exists_cwd(filename, n) == filename \in Files

_file_exists(filename, n) ==
    PathJoin(Dirname(n.file), filename) \in Files

(***************************************************************************)
(* The rule engine.  A diagnostic is [code, args]; its anchor is the       *)
(* visited node.                                                           *)
(***************************************************************************)
Message(code, args) == [code |-> code, args |-> args]

\* one message for every element of s
Repeat(s, m) == [i \in 1..Len(s) |-> m]

\* the chain the scope predicates walk, starting at the node itself
Lineage(n) == <<Encl(n.type), n.parent>> \o n.scopes

visit_const(n) ==
    IF /\ n.isstr
       /\ RePng(n.value)
       /\ ~Contains(n.value, "\n")
       /\ ~_is_calculated_value(n)
       /\ ~_is_pattern_value(n)
       /\ ~_is_whitelisted_name(n.value)
       /\ ~_in_whitelisted_functions(n)
       /\ ~_file_exists(n.value, n)
    THEN <<Message("E7001", n.value)>>
    ELSE <<>>

\* an exception escapes visit_const: its only resolver calls are those of
\* _in_whitelisted_functions
visit_const_raised(n) ==
    /\ n.isstr
    /\ RePng(n.value)
    /\ ~Contains(n.value, "\n")
    /\ ~_is_calculated_value(n)
    /\ ~_is_pattern_value(n)
    /\ ~_is_whitelisted_name(n.value)
    /\ n.parent.kind = "Call"
    /\ _infer(n.parent.func.res).raised

LibraryRoots == {"stbt", "_stbt.core"}

InLibrary(inferred) == inferred.root \in LibraryRoots

\* flags the call whatever uses its value
UnusedReturn_any_parent(n) ==
    IF ReUnusedReturn(n.func.as_string)
    THEN Repeat(SelectSeq(_infer(n.func.res).yielded, InLibrary),
                Message("E7002", n.func.as_string))
    ELSE <<>>

\* rule E7002 (source lines 70-76)
UnusedReturn(n) ==
    IF ReUnusedReturn(n.func.as_string) /\ n.parent.kind = "Expr"
    THEN Repeat(SelectSeq(_infer(n.func.res).yielded, InLibrary),
                Message("E7002", n.func.as_string))
    ELSE <<>>

\* rule E7003 (source lines 78-82)
WaitUntilCallable(n) ==
    IF /\ ReWaitUntil(n.func.as_string)
       /\ n.args # <<>>
       /\ ~_is_callable(n.args[1])
    THEN <<Message("E7003", n.args[1].as_string)>>
    ELSE <<>>

IsKeyword(a) == a.kind = "Keyword"
NotKeyword(a) == a.kind # "Keyword"

\* funcdef.argnames().index("frame")
IndexOfFrame(argnames) ==
    (CHOOSE i \in 1..Len(argnames) :
        /\ argnames[i] = "frame"
        /\ \A j \in 1..(i - 1) : argnames[j] # "frame") - 1

\* source lines 90-96: the two shapes of a call
PositionalArgs(n) == SelectSeq(n.args, NotKeyword)
KeywordNames(n) ==
    IF n.hasKeywords
    THEN {n.keywords[i].arg : i \in 1..Len(n.keywords)}
    ELSE {a.arg : a \in Range(SelectSeq(n.args, IsKeyword))}

\* off by one: requires the argument before "frame" to be missing too
MissingFrame_off_by_one(n, funcdef) ==
    /\ funcdef.kind = "FunctionDef"
    /\ funcdef # YES
    /\ "frame" \in Range(funcdef.argnames)
    /\ Len(PositionalArgs(n)) < IndexOfFrame(funcdef.argnames)
    /\ "frame" \notin KeywordNames(n)

\* source lines 86-97
MissingFrame(n, funcdef) ==
    /\ funcdef.kind = "FunctionDef"
    /\ funcdef # YES
    /\ "frame" \in Range(funcdef.argnames)
    /\ Len(PositionalArgs(n)) <= IndexOfFrame(funcdef.argnames)
    /\ "frame" \notin KeywordNames(n)

\* rule E7004 (source lines 84-99)
FrameObjectFrame(n) ==
    IF _in_frameobject(Lineage(n)) /\ _in_property(Lineage(n))
    THEN LET Missing(funcdef) == MissingFrame(n, funcdef)
         IN  Repeat(SelectSeq(_infer(n.func.res).yielded, Missing),
                    Message("E7004", n.as_string))
    ELSE <<>>

visit_callfunc(n) ==
    UnusedReturn(n) \o WaitUntilCallable(n) \o FrameObjectFrame(n)

\* an exception escapes visit_callfunc: its only raise points are the
\* resolver calls it reaches
visit_callfunc_raised(n) ==
    \/ /\ ReUnusedReturn(n.func.as_string)
       /\ n.parent.kind = "Expr"
       /\ _infer(n.func.res).raised
    \/ /\ ReWaitUntil(n.func.as_string)
       /\ n.args # <<>>
       /\ \/ _infer(n.args[1].res).raised
          \/ /\ _infer(n.args[1].res).yielded = <<>>
             /\ n.args[1].kind = "Call"
             /\ n.args[1].func.as_string # "functools.partial"
             /\ _infer(n.args[1].func.res).raised
    \/ /\ _in_frameobject(Lineage(n))
       /\ _in_property(Lineage(n))
       /\ _infer(n.func.res).raised

(***************************************************************************)
(* The nodes the host feeds to the checker.                                *)
(***************************************************************************)
\* a literal: value, whether it is a str, its parent, the file it is in
ConstNode(value, isstr, parent, file) ==
    [type |-> "Const", value |-> value, isstr |-> isstr, parent |-> parent,
     scopes |-> <<>>, file |-> file]

RECURSIVE JoinComma(_)
JoinComma(args) ==
    IF args = <<>> THEN ""
    ELSE IF Len(args) = 1 THEN args[1].as_string
    ELSE args[1].as_string \o ", " \o JoinComma(Tail(args))

Keywords(kwnames) == [i \in 1..Len(kwnames) |-> KeywordArg(kwnames[i])]

\* a call: astroid >= 1.4 keeps the keyword arguments in node.keywords,
\* astroid < 1.4 keeps them as Keyword nodes at the end of node.args
CallExpr(func, posargs, kwnames, astroid14, parent, scopes) ==
    [type |-> "Call",
     func |-> func,
     args |-> IF astroid14 THEN posargs ELSE posargs \o Keywords(kwnames),
     hasKeywords |-> astroid14,
     keywords |-> IF astroid14 THEN Keywords(kwnames) ELSE <<>>,
     parent |-> parent,
     scopes |-> scopes,
     as_string |-> func.as_string \o "("
                   \o JoinComma(posargs \o Keywords(kwnames)) \o ")"]

LiteralValues ==
    {"a.png", "b.png", "images/b.png", ".png", "screenshot.png", "a*.png",
     "a?.png", "a\nb.png", "b.png\n", "a.txt", "/srv/c.png", "root.png"}

SourceFiles == {"tests/test.py", "test.py"}

LiteralCallees ==
    {Expression(t, r) :
        t \in {"stbt.match", "os.path.join", "cv2.imwrite", "imwrite",
               "save_frame"},
        r \in ResolverOutcomes({D_imwrite, D_save_frame, YES})}

LiteralParents ==
    {Encl("Expr"), Encl("Assign"), Encl("BinOp")}
    \cup {CallNode(f) : f \in LiteralCallees}
    \cup {KeywordNode(f) : f \in LiteralCallees}

\* the literals fed to visit_const
IsConstNode(n) ==
    \E v \in LiteralValues, b \in BOOLEAN, p \in LiteralParents,
       f \in SourceFiles :
        n = ConstNode(v, b, p, f)

CalleeTexts ==
    {"stbt.match", "match", "stbt.wait_for_match", "stbt.wait_until",
     "my_wait_until", "stbt.press", "stbt.ocr"}

CalleeItems == {D_match, D_wait_until, D_user, D_class, YES}

CallParents ==
    {Encl("Expr"), Encl("Assert"), Encl("Assign"), Encl("Return"),
     CallNode(Expression("print", InferenceError))}

\* k literal arguments
Literals(k) == [i \in 1..k |-> ConstArg("5")]

\* calls whose value is used or dropped
IsUnusedReturnCall(n) ==
    \E t \in CalleeTexts, r \in ResolverOutcomes(CalleeItems),
       a \in {<<>>, <<LambdaArg>>}, p \in CallParents :
        n = CallExpr(Expression(t, r), a, <<>>, TRUE, p, <<>>)

ArgItems == {D_user, D_const, YES}

FirstArgs ==
    {ConstArg("'a.png'"), ConstArg("5"), LambdaArg}
    \cup {NameArg("f", r) : r \in ResolverOutcomes(ArgItems)}
    \cup {CallArg(Expression(t, fr), r) :
            t \in {"functools.partial", "partial", "g"},
            fr \in {InferenceError, Resolved(<<D_partial>>),
                    Resolved(<<D_user>>)},
            r \in {InferenceError, Resolved(<<>>), Resolved(<<YES>>),
                   Resolved(<<D_const>>), Resolved(<<D_user>>)}}

WaitPosArgs ==
    {<<>>} \cup {<<a>> \o Literals(k) : a \in FirstArgs, k \in 0..(MaxPos - 1)}

\* calls of wait_until and of functions named like it
IsWaitUntilCall(n) ==
    \E t \in {"wait_until", "stbt.wait_until", "my_wait_until",
              "wait_until_x", "stbt.press"},
       r \in {InferenceError, Resolved(<<D_wait_until>>)},
       a \in WaitPosArgs,
       k \in {<<>>, <<"timeout_secs">>},
       v \in BOOLEAN,
       p \in {Encl("Expr"), Encl("Assert")} :
        n = CallExpr(Expression(t, r), a, k, v, p, <<>>)

Property == FunctionDefNode({"__builtin__.property"})
Method == FunctionDefNode({})
FrameObjectClass == ClassDefNode({"stbt.FrameObject", "__builtin__.object"})
OtherClass == ClassDefNode({"__builtin__.object"})

\* the nodes that enclose the statement of a call, nearest first
ScopeSamples ==
    {<<>>,
     <<Method>>,
     <<Property>>,
     <<Property, FrameObjectClass>>,
     <<Method, FrameObjectClass>>,
     <<Property, OtherClass>>,
     <<Method, Property, FrameObjectClass>>,
     <<Encl("If"), Property, OtherClass, Method, FrameObjectClass>>}

\* calls inside and outside the properties of FrameObject classes
IsFrameObjectCall(n) ==
    \E t \in {"stbt.match", "self.helper"},
       r \in ResolverOutcomes(CalleeItems),
       a \in 0..MaxPos,
       k \in {<<>>, <<"frame">>, <<"region">>},
       v \in BOOLEAN,
       p \in {Encl("Expr"), Encl("Return")},
       s \in ScopeSamples :
        n = CallExpr(Expression(t, r), Literals(a), k, v, p, s)

IsCallNode(n) ==
    IsUnusedReturnCall(n) \/ IsWaitUntilCall(n) \/ IsFrameObjectCall(n)

(***************************************************************************)
(* The checker under the host's traversal: the host hands it one node,     *)
(* and the visitor of the node's kind runs to completion.                  *)
(***************************************************************************)
Init ==
    /\ pc = "ready"
    /\ IsConstNode(node) \/ IsCallNode(node)
    /\ msgs = <<>>
    /\ raised = FALSE
    /\ ret = "none"

VisitConst ==
    /\ pc = "ready"
    /\ node.type = "Const"
    /\ msgs' = visit_const(node)
    /\ raised' = visit_const_raised(node)
    /\ pc' = "done"
    /\ UNCHANGED <<node, ret>>

VisitCallfunc ==
    /\ pc = "ready"
    /\ node.type = "Call"
    /\ msgs' = visit_callfunc(node)
    /\ raised' = visit_callfunc_raised(node)
    /\ pc' = "done"
    /\ UNCHANGED <<node, ret>>

Next == VisitConst \/ VisitCallfunc

Spec == Init /\ [][Next]_vars

(***************************************************************************)
(* The inference adapter on its own.                                       *)
(***************************************************************************)
InferItems == {D_match, D_user, D_class, D_const, YES}

InitInfer ==
    /\ pc = "ready"
    /\ node \in {[type |-> "Infer", res |-> r] :
                    r \in ResolverOutcomes(InferItems)}
    /\ msgs = <<>>
    /\ raised = FALSE
    /\ ret = "none"

Infer ==
    /\ pc = "ready"
    /\ node.type = "Infer"
    /\ ret' = _infer(node.res).yielded
    /\ raised' = _infer(node.res).raised
    /\ pc' = "done"
    /\ UNCHANGED <<node, msgs>>

NextInfer == Infer

SpecInfer == InitInfer /\ [][NextInfer]_vars

(***************************************************************************)
(* The scope predicates on their own.                                      *)
(***************************************************************************)
WalkNodes == {Property, Method, FrameObjectClass, OtherClass, Encl("If")}

InitWalk ==
    /\ pc = "ready"
    /\ node \in {[type |-> "Call", parent |-> Encl("Expr"), scopes |-> s] :
                    s \in SeqUpTo(WalkNodes, MaxDepth)}
    /\ msgs = <<>>
    /\ raised = FALSE
    /\ ret = "none"

InProperty ==
    /\ pc = "ready"
    /\ ret' = [fn |-> "_in_property", value |-> _in_property(Lineage(node))]
    /\ pc' = "done"
    /\ UNCHANGED <<node, msgs, raised>>

InFrameobject ==
    /\ pc = "ready"
    /\ ret' = [fn |-> "_in_frameobject",
               value |-> _in_frameobject(Lineage(node))]
    /\ pc' = "done"
    /\ UNCHANGED <<node, msgs, raised>>

NextWalk == InProperty \/ InFrameobject

SpecWalk == InitWalk /\ [][NextWalk]_vars

(***************************************************************************)
(* Vocabulary of the properties.                                           *)
(***************************************************************************)
Done == pc = "done"

CountCode(c) == Cardinality({i \in 1..Len(msgs) : msgs[i].code = c})

\* every diagnostic of code c carries the argument a
AllCarry(c, a) == \A i \in 1..Len(msgs) : msgs[i].code = c => msgs[i].args = a

EndsWith(s, lit) ==
    Len(s) >= Len(lit) /\ SubSeq(s, Len(s) - Len(lit) + 1, Len(s)) = lit

\* the identifier that ends s: its longest suffix of word characters
TrailingWord(s) ==
    LET starts == {i \in 1..(Len(s) + 1) : \A j \in i..Len(s) : IsWordAt(s, j)}
        first == CHOOSE i \in starts : \A j \in starts : i <= j
    IN  SubSeq(s, first, Len(s))

\* the genuine candidates a resolver outcome holds
Genuine(res) == {res.items[i] : i \in 1..Len(res.items)} \ {YES}

ExistsBesideSource(n) == PathJoin(Dirname(n.file), n.value) \in Files

\* the literal is an argument, positional or keyword, of a whitelisted caller
ArgumentOfWhitelisted(n) ==
    /\ n.parent.kind \in {"Call", "Keyword"}
    /\ \E x \in WhitelistedFunctions :
          \/ n.parent.func.as_string = x
          \/ \E d \in Genuine(n.parent.func.res) :
                d.kind = "FunctionDef" /\ d.parent \o "." \o d.name = x

\* the literals C1 speaks of, but for the existence of the file
PlainPngLiteral(n) ==
    /\ n.type = "Const"
    /\ n.isstr
    /\ EndsWith(n.value, ".png")
    /\ ~Contains(n.value, "\n")
    /\ ~_is_calculated_value(n)
    /\ \A w \in {"*", "?", "["} : ~Contains(n.value, w)
    /\ n.value # "screenshot.png"
    /\ ~ArgumentOfWhitelisted(n)

ExactlyOneMissingImage(n) == msgs = <<Message("E7001", n.value)>>

(***************************************************************************)
(* C1 as stated: every plain literal ending in ".png" whose file is        *)
(* missing gets exactly one E7001 carrying its text, and none when the     *)
(* file exists.  Fails for the literal ".png" itself: the pattern          *)
(* '.+\.png$' wants a character before the suffix.                         *)
(***************************************************************************)
C1_AsStated ==
    Done /\ PlainPngLiteral(node) =>
        IF ExistsBesideSource(node) THEN msgs = <<>>
        ELSE ExactlyOneMissingImage(node)

(***************************************************************************)
(* C1 amended: every plain str literal that ends in ".png" with at least   *)
(* one character before the suffix gets exactly one E7001 carrying its     *)
(* text when the file is missing beside the source file, and no            *)
(* diagnostic when the file exists.                                        *)
(***************************************************************************)
C1_MissingImage ==
    Done /\ PlainPngLiteral(node) /\ Len(node.value) >= 5 =>
        IF ExistsBesideSource(node) THEN msgs = <<>>
        ELSE ExactlyOneMissingImage(node)

C1_Witness ==
    /\ Done
    /\ PlainPngLiteral(node)
    /\ Len(node.value) >= 5
    /\ node.parent.kind = "Call"
    /\ ~ExistsBesideSource(node)
    /\ ExactlyOneMissingImage(node)

ResolvesToLibrary(func) == \E d \in Genuine(func.res) : d.root \in LibraryRoots

UnusedReturnVerdict(n) ==
    /\ n.parent.kind = "Expr" =>
          CountCode("E7002") >= 1 /\ AllCarry("E7002", n.func.as_string)
    /\ n.parent.kind \in {"Assert", "Assign", "Return"} =>
          CountCode("E7002") = 0

(***************************************************************************)
(* C2 as stated: a call whose callee text ends with one of the five names  *)
(* and resolves into the library yields E7002 as a statement and none      *)
(* under assert, assignment or return.  Fails for stbt.wait_for_match,     *)
(* whose text ends with "match".                                           *)
(***************************************************************************)
C2_AsStated ==
    /\ Done
    /\ node.type = "Call"
    /\ \E name \in UnusedReturnNames : EndsWith(node.func.as_string, name)
    /\ ResolvesToLibrary(node.func)
    => UnusedReturnVerdict(node)

(***************************************************************************)
(* C2 amended: a call whose callee text ends with one of the five names    *)
(* as a whole identifier (the name starts at a word boundary) and resolves *)
(* into the library yields E7002 with the callee's text when its parent is *)
(* an expression statement, and none under assert, assignment or return.   *)
(***************************************************************************)
C2_UnusedReturn ==
    /\ Done
    /\ node.type = "Call"
    /\ TrailingWord(node.func.as_string) \in UnusedReturnNames
    /\ ResolvesToLibrary(node.func)
    => UnusedReturnVerdict(node)

C2_Witness ==
    /\ Done
    /\ node.type = "Call"
    /\ TrailingWord(node.func.as_string) \in UnusedReturnNames
    /\ ResolvesToLibrary(node.func)
    /\ node.parent.kind = "Expr"
    /\ CountCode("E7002") >= 1

\* the call's positional arguments, whatever the astroid version
Positionals(n) ==
    {i \in 1..Len(n.args) : n.args[i].kind # "Keyword"}

(***************************************************************************)
(* C3: for a call of a wait_until-named function, no E7003 when the first  *)
(* positional argument is callable, exactly one E7003 with the argument's  *)
(* text when it is a string or number literal, and none when the call has  *)
(* no positional argument.  The code breaks the last part under            *)
(* astroid < 1.4, where node.args also holds the keyword arguments.        *)
(***************************************************************************)
C3_WaitUntilCallable ==
    Done /\ node.type = "Call" /\ ReWaitUntil(node.func.as_string) =>
        /\ Positionals(node) = {} => CountCode("E7003") = 0
        /\ Positionals(node) # {} /\ node.args[1].kind = "Const" =>
              /\ CountCode("E7003") = 1
              /\ AllCarry("E7003", node.args[1].as_string)
        /\ /\ Positionals(node) # {}
           /\ node.args[1].kind \in {"Lambda", "Name"}
           /\ \E d \in Genuine(node.args[1].res) : Callable(d)
           => CountCode("E7003") = 0

\* the three parts of C3 that the code does satisfy: with a positional
\* first argument
C3_WithPositional ==
    /\ Done
    /\ node.type = "Call"
    /\ ReWaitUntil(node.func.as_string)
    /\ Positionals(node) # {}
    => /\ node.args[1].kind = "Const" =>
             /\ CountCode("E7003") = 1
             /\ AllCarry("E7003", node.args[1].as_string)
       /\ /\ node.args[1].kind \in {"Lambda", "Name"}
          /\ \E d \in Genuine(node.args[1].res) : Callable(d)
          => CountCode("E7003") = 0

InsidePropertyOfFrameObject(n) ==
    /\ \E i \in 1..Len(n.scopes) :
          /\ n.scopes[i].kind = "ClassDef"
          /\ "stbt.FrameObject" \in n.scopes[i].ancestors
    /\ \E i \in 1..Len(n.scopes) :
          /\ n.scopes[i].kind = "FunctionDef"
          /\ "__builtin__.property" \in n.scopes[i].decoratornames

\* the definitions with a "frame" parameter the callee resolves to
WithFrame(n) ==
    {d \in Genuine(n.func.res) :
        d.kind = "FunctionDef" /\ "frame" \in Range(d.argnames)}

NumPositional(n) == Cardinality(Positionals(n))

PassesFrameKeyword(n) ==
    \/ \E i \in 1..Len(n.args) :
          n.args[i].kind = "Keyword" /\ n.args[i].arg = "frame"
    \/ \E i \in 1..Len(n.keywords) : n.keywords[i].arg = "frame"

(***************************************************************************)
(* C4: inside a property and a FrameObject class, E7004 is emitted with    *)
(* the call's text when the callee resolves to a function whose "frame"    *)
(* parameter lies at an index >= the number of positional arguments and    *)
(* no frame= keyword is passed; it is not emitted when the positional      *)
(* arguments reach "frame", when frame= is passed, or when the call is not *)
(* inside both.                                                            *)
(***************************************************************************)
C4_FrameMissing ==
    Done /\ node.type = "Call" =>
        /\ /\ InsidePropertyOfFrameObject(node)
           /\ ~PassesFrameKeyword(node)
           /\ \E d \in WithFrame(node) :
                 IndexOfFrame(d.argnames) >= NumPositional(node)
           => CountCode("E7004") >= 1 /\ AllCarry("E7004", node.as_string)
        /\ \/ ~InsidePropertyOfFrameObject(node)
           \/ PassesFrameKeyword(node)
           \/ \A d \in WithFrame(node) :
                 IndexOfFrame(d.argnames) < NumPositional(node)
           => CountCode("E7004") = 0

C4_Witness ==
    /\ Done
    /\ node.type = "Call"
    /\ InsidePropertyOfFrameObject(node)
    /\ ~PassesFrameKeyword(node)
    /\ D_match \in WithFrame(node)
    /\ NumPositional(node) = 1
    /\ CountCode("E7004") >= 1
    /\ AllCarry("E7004", node.as_string)

(***************************************************************************)
(* C5: within one visit each rule emits at most one diagnostic for the     *)
(* node, however many definitions the callee resolves to.  The loops of    *)
(* E7002 and E7004 have no break: they emit once per qualifying            *)
(* definition.                                                             *)
(***************************************************************************)
C5_AtMostOncePerRule ==
    Done => \A c \in {"E7001", "E7002", "E7003", "E7004"} : CountCode(c) <= 1

(***************************************************************************)
(* C6: a call whose callee resolves to nothing (the resolver raises at     *)
(* once, or produces only YES) never raises out of the visit and gets      *)
(* neither E7002 nor E7004.                                                *)
(***************************************************************************)
C6_UnresolvedCallee ==
    Done /\ node.type = "Call" /\ Genuine(node.func.res) = {} =>
        /\ ~raised
        /\ CountCode("E7002") = 0
        /\ CountCode("E7004") = 0

C6_Witness ==
    /\ Done
    /\ node.type = "Call"
    /\ Genuine(node.func.res) = {}
    /\ node.func.res.raises
    /\ ReUnusedReturn(node.func.as_string)
    /\ node.parent.kind = "Expr"
    /\ InsidePropertyOfFrameObject(node)
    /\ ~raised
    /\ msgs = <<>>

\* the callee is functools.partial, by its text or by what it resolves to
NamesPartial(func) ==
    \/ func.as_string = "functools.partial"
    \/ \E d \in Genuine(func.res) :
          /\ d.kind = "FunctionDef"
          /\ d.parent = "functools"
          /\ d.name = "partial"

\* the first argument of a wait_until call resolves to nothing
WaitUntilArgUnresolved(n) ==
    /\ n.type = "Call"
    /\ ReWaitUntil(n.func.as_string)
    /\ n.args # <<>>
    /\ Genuine(n.args[1].res) = {}

\* the callee of the call a literal is passed to resolves to nothing
LiteralCallerUnresolved(n) ==
    /\ n.type = "Const"
    /\ n.parent.kind = "Call"
    /\ Genuine(n.parent.func.res) = {}

(***************************************************************************)
(* C7 as stated: whenever the expression a rule resolves gets no           *)
(* candidates, the rule emits nothing.  Fails for E7003 (an unresolvable   *)
(* first argument is reported as not callable) and for E7001 (an           *)
(* unresolvable caller is not whitelisted).                                *)
(***************************************************************************)
C7_AsStated ==
    Done =>
        /\ node.type = "Call" /\ Genuine(node.func.res) = {} =>
              CountCode("E7002") = 0 /\ CountCode("E7004") = 0
        /\ WaitUntilArgUnresolved(node) => CountCode("E7003") = 0
        /\ LiteralCallerUnresolved(node) => CountCode("E7001") = 0

(***************************************************************************)
(* C7 amended: with no candidates for the callee, E7002 and E7004 stay     *)
(* silent.  With no candidates for the first argument of a wait_until      *)
(* call, E7003 stays silent only if that argument is a call of             *)
(* functools.partial, and is emitted otherwise.  With no candidates for    *)
(* the caller of a literal, the whitelist is decided by the caller's text  *)
(* alone, so E7001 is emitted exactly when its other conditions hold and   *)
(* that text is not a whitelisted name.                                    *)
(***************************************************************************)
C7_InferenceFailure ==
    Done =>
        /\ node.type = "Call" /\ Genuine(node.func.res) = {} =>
              CountCode("E7002") = 0 /\ CountCode("E7004") = 0
        /\ WaitUntilArgUnresolved(node) =>
              (CountCode("E7003") = 0 <=>
                  node.args[1].kind = "Call" /\ NamesPartial(node.args[1].func))
        /\ LiteralCallerUnresolved(node) =>
              (CountCode("E7001") = 0 <=>
                  ~(/\ node.isstr
                    /\ EndsWith(node.value, ".png")
                    /\ Len(node.value) >= 5
                    /\ ~Contains(node.value, "\n")
                    /\ SplitDotLast(node.parent.func.as_string) # "join"
                    /\ ~Contains(node.value, "*")
                    /\ node.value # "screenshot.png"
                    /\ node.parent.func.as_string \notin WhitelistedFunctions
                    /\ ~ExistsBesideSource(node)))

C7_Witness ==
    /\ Done
    /\ WaitUntilArgUnresolved(node)
    /\ node.args[1].kind = "Name"
    /\ node.args[1].res.raises
    /\ msgs = <<Message("E7003", node.args[1].as_string)>>

\* the positions of the genuine candidates among what the resolver produced
GenuineAt(res) == {i \in 1..Len(res.items) : res.items[i] # YES}

\* the k-th genuine candidate the resolver produced
KthGenuine(res, k) ==
    res.items[CHOOSE i \in GenuineAt(res) :
                 Cardinality({j \in GenuineAt(res) : j <= i}) = k]

(***************************************************************************)
(* C8 as stated: _infer never propagates a resolver exception, never       *)
(* returns YES, and returns nothing whenever the resolver fails, also when *)
(* it fails after having produced candidates.  Fails in the last case:     *)
(* _infer is a generator and has handed over what was produced.            *)
(***************************************************************************)
C8_AsStated ==
    Done =>
        /\ ~raised
        /\ YES \notin Range(ret)
        /\ node.res.raises => ret = <<>>

(***************************************************************************)
(* C8 amended: _infer never propagates a resolver exception and never      *)
(* returns YES; it returns, in order, every candidate other than YES that  *)
(* the resolver produced before it failed or ended, so it is empty on      *)
(* failure only if the resolver produced no genuine candidate first.       *)
(***************************************************************************)
C8_Infer ==
    Done =>
        /\ ~raised
        /\ YES \notin Range(ret)
        /\ Len(ret) = Cardinality(GenuineAt(node.res))
        /\ \A k \in 1..Len(ret) : ret[k] = KthGenuine(node.res, k)

C8_Witness ==
    /\ Done
    /\ node.res.raises
    /\ YES \in Range(node.res.items)
    /\ ret # <<>>
    /\ ~raised

\* the enclosing function definitions, by their distance from the node
FunctionsAbove(n) ==
    {i \in 1..Len(n.scopes) : n.scopes[i].kind = "FunctionDef"}
ClassesAbove(n) ==
    {i \in 1..Len(n.scopes) : n.scopes[i].kind = "ClassDef"}

Nearest(S) == CHOOSE i \in S : \A j \in S : i <= j

IsProperty(f) == "__builtin__.property" \in f.decoratornames
IsFrameObject(c) == "stbt.FrameObject" \in c.ancestors

(***************************************************************************)
(* C9 as stated: _in_property is decided by the nearest enclosing function *)
(* definition alone.  Fails for a plain function nested in a property: the *)
(* walk goes on past a function that is not a property.                    *)
(***************************************************************************)
C9_AsStated ==
    Done /\ ret.fn = "_in_property" =>
        ret.value = (/\ FunctionsAbove(node) # {}
                     /\ IsProperty(node.scopes[Nearest(FunctionsAbove(node))]))

(***************************************************************************)
(* C9 amended: _in_property is true iff some enclosing function            *)
(* definition, the nearest or a farther one, carries the property          *)
(* decorator; it is false when no enclosing function does, in particular   *)
(* when there is no enclosing function.                                    *)
(***************************************************************************)
C9_InProperty ==
    Done /\ ret.fn = "_in_property" =>
        ret.value = (\E i \in FunctionsAbove(node) : IsProperty(node.scopes[i]))

C9_Witness ==
    /\ Done
    /\ ret.fn = "_in_property"
    /\ FunctionsAbove(node) # {}
    /\ ~IsProperty(node.scopes[Nearest(FunctionsAbove(node))])
    /\ ret.value

(***************************************************************************)
(* C10 as stated: _in_frameobject is decided by the nearest enclosing      *)
(* class definition alone.  Fails for a plain class nested in a            *)
(* FrameObject class: the walk goes on past a class that is not one.       *)
(***************************************************************************)
C10_AsStated ==
    Done /\ ret.fn = "_in_frameobject" =>
        ret.value = (/\ ClassesAbove(node) # {}
                     /\ IsFrameObject(node.scopes[Nearest(ClassesAbove(node))]))

(***************************************************************************)
(* C10 amended: _in_frameobject is true iff some enclosing class           *)
(* definition, the nearest or a farther one, has stbt.FrameObject among    *)
(* its ancestors; it is false when no enclosing class has, in particular   *)
(* when there is no enclosing class.                                       *)
(***************************************************************************)
C10_InFrameobject ==
    Done /\ ret.fn = "_in_frameobject" =>
        ret.value = (\E i \in ClassesAbove(node) : IsFrameObject(node.scopes[i]))

C10_Witness ==
    /\ Done
    /\ ret.fn = "_in_frameobject"
    /\ ClassesAbove(node) # {}
    /\ ~IsFrameObject(node.scopes[Nearest(ClassesAbove(node))])
    /\ ret.value

====
